---- MODULE Spec2Model ----
(***************************************************************************)
(* A model of the routing core of memeroute: the result aggregator         *)
(* (RouteResult::merge, apply_route_result), the shape predicates, the     *)
(* segment/rectangle/circle geometry kernel, Router::route, the net-order  *)
(* driver (Router::run_ga with its Evaluator) and the Route button's       *)
(* threads of the viewer.                                                  *)
(*                                                                         *)
(* Each part of the program has its own group of variables and its own     *)
(* specification (SpecAgg, SpecAssoc, ...); a specification leaves the     *)
(* variables of the other parts at their idle values.                      *)
(***************************************************************************)
EXTENDS Integers, Sequences, FiniteSets, TLC

VARIABLES
    \* --- result aggregator (router.rs: RouteResult, apply_route_result)
    acc,        \* the RouteResult that results are merged into
    merged,     \* history: the RouteResults merged into acc so far, in order
    pcb,        \* the PCB's result buffer: wires, vias, debug_rts
    aggOp,      \* the last aggregator operation: "none", "merge", "apply"
    aggArg,     \* the RouteResult that operation was given
    aggPrev,    \* acc and pcb as they were before that operation
    napply,     \* number of apply_route_result calls so far
    \* --- associativity of merge: three operands and the two groupings
    ma, mb, mc,
    left,       \* (a.merge(b)).merge(c), or NoResult
    right,      \* a.merge(b.merge(c)), or NoResult
    \* --- seg_intersects_seg on a pair of segments (intersects.rs)
    segA, segB,
    segRes,     \* the results of test_seg_seg_permutations' four calls, or NoResult
    \* --- test_seg_seg: a pair of segments under transforms (intersects.rs)
    tfA, tfB,   \* the pair, as transformed so far
    tfRes,      \* seg_intersects_seg(tfA, tfB)
    tfRes0,     \* seg_intersects_seg of the pair before any transform
    tfN,        \* number of transforms applied
    tfLast,     \* the last transform applied
    \* --- a call of Shape::intersects or Shape::contains (shape.rs)
    shA, shB,   \* the variants of self and of the argument
    shCall,     \* "none", "intersects", "contains"
    shOutcome,  \* "none", "panic", or the boolean returned: "true", "false"
    \* --- rt_rt_dist and circ_rt_dist (distance.rs)
    distA,      \* the first argument: a rectangle or a circle
    distB,      \* the second argument: a rectangle
    distRes,    \* what the intersection test and the distance returned, or NoResult
    \* --- Router::route called by parallel workers (router.rs)
    rPcb,       \* the Pcb in the Router's Mutex
    rPcb0,      \* history: that Pcb when the Router was made
    rLock,      \* the task that holds the Mutex, or NoTask
    tasks,      \* per route call: where it is, its net order, its grid, its result
    \* --- Router::fitness on two route outcomes (router.rs)
    fitA, fitB, \* the outcomes: a RouteResult and the number of nets that failed
    fitRes,     \* the cost and fitness given to each, or NoResult
    \* --- Evaluator::crossover and Evaluator::mutate on RouteStates (router.rs)
    permS1, permS2, \* the two RouteStates
    permOp,     \* the last operator applied, and whether it changed a state
    permN,      \* number of operators applied
    \* --- Router::run_ga (router.rs)
    gaBoard,    \* the Pcb of the Router
    gaRuns,     \* the runs of run_ga made on it
    ga,         \* per run: where it is, its population, fitnesses, best, result
    \* --- the Route button of the viewer (gui.rs)
    guiPcb,     \* the Pcb shared by the viewer and its routing threads
    guiThreads, \* per click: where its thread is, its result, the session it wrote
    guiLast,    \* history: the RouteResult applied most recently, or NoResult
    guiOverlap  \* history: some thread was started while another was running

aggVars   == <<acc, merged, pcb, aggOp, aggArg, aggPrev, napply>>
assocVars == <<ma, mb, mc, left, right>>
segVars   == <<segA, segB, segRes>>
tfVars    == <<tfA, tfB, tfRes, tfRes0, tfN, tfLast>>
shVars    == <<shA, shB, shCall, shOutcome>>
distVars  == <<distA, distB, distRes>>
routeVars == <<rPcb, rPcb0, rLock, tasks>>
fitVars   == <<fitA, fitB, fitRes>>
permVars  == <<permS1, permS2, permOp, permN>>
gaVars    == <<gaBoard, gaRuns, ga>>
guiVars   == <<guiPcb, guiThreads, guiLast, guiOverlap>>
kernelVars == <<aggVars, assocVars, segVars, tfVars, shVars, distVars, routeVars>>
driverVars == <<fitVars, permVars, gaVars, guiVars>>
vars      == <<kernelVars, driverVars>>

(***************************************************************************)
(* Bounds                                                                  *)
(***************************************************************************)
\* most items (wires + vias + debug rectangles) in one merged RouteResult
AggLen == 1
\* most merges into the accumulator
MaxMerges == 2
\* most apply_route_result calls
MaxApply == 2
\* segment endpoints are drawn from the grid (0..SegGrid) x (0..SegGrid)
SegGrid == 2
\* most transforms applied one after another to a pair of segments
MaxTf == 2
\* rectangle corners and circle centres are drawn from (0..DistGrid) x
\* (0..DistGrid), circle radii from 1..DistGrid
DistGrid == 3
\* coordinates of the points and end points given to pt_seg_dist: 0..PtSegGrid
PtSegGrid == 3
\* nets of the board routed by Router::route
NumNets == 2
\* route calls that may be in flight at once (fitness workers)
NumTasks == 2

(***************************************************************************)
(* RouteResult                                                             *)
(***************************************************************************)
\* #[derive(Default)]: empty lists, failed = false
DefaultResult ==
    [wires |-> <<>>, vias |-> <<>>, debug_rts |-> <<>>, failed |-> FALSE]

NoResult == [none |-> TRUE]

\* no route call holds the Router's Mutex
NoTask == 0

\* A RouteResult with lw wires, lv vias and ld debug rectangles.  The items
\* carry the tag of the result they come from, so that the origin and the
\* order of every item of a merged result can be told.
MkResult(tag, lw, lv, ld, f) ==
    [wires     |-> [i \in 1..lw |-> <<"wire", tag, i>>],
     vias      |-> [i \in 1..lv |-> <<"via", tag, i>>],
     debug_rts |-> [i \in 1..ld |-> <<"rt", tag, i>>],
     failed    |-> f]

\* The RouteResults with at most n items in all
Results(tag, n) ==
    { MkResult(tag, lw, lv, ld, f) :
        <<lw, lv, ld, f>> \in
          { t \in (0..n) \X (0..n) \X (0..n) \X BOOLEAN : t[1] + t[2] + t[3] <= n } }

\* merge with the failure flag overwritten instead of OR-ed
merge_overwrite_failed(self, r) ==
    [wires     |-> self.wires \o r.wires,
     vias      |-> self.vias \o r.vias,
     debug_rts |-> self.debug_rts \o r.debug_rts,
     failed    |-> r.failed]

\* merge that skips the lists of a failed result
merge_skip_failed(self, r) ==
    [wires     |-> self.wires \o (IF r.failed THEN <<>> ELSE r.wires),
     vias      |-> self.vias \o (IF r.failed THEN <<>> ELSE r.vias),
     debug_rts |-> self.debug_rts \o (IF r.failed THEN <<>> ELSE r.debug_rts),
     failed    |-> self.failed \/ r.failed]

\* RouteResult::merge(&mut self, r): the value of self afterwards
merge(self, r) ==
    [wires     |-> self.wires \o r.wires,
     vias      |-> self.vias \o r.vias,
     debug_rts |-> self.debug_rts \o r.debug_rts,
     failed    |-> self.failed \/ r.failed]

(***************************************************************************)
(* The PCB's result buffer                                                 *)
(***************************************************************************)
EmptyPcb == [wires |-> <<>>, vias |-> <<>>, debug_rts |-> <<>>]

\* Pcb::add_wire, add_via, add_debug_rt: append to the buffer
add_wire(p, w) == [p EXCEPT !.wires = Append(@, w)]
add_via(p, v) == [p EXCEPT !.vias = Append(@, v)]
add_debug_rt(p, rt) == [p EXCEPT !.debug_rts = Append(@, rt)]

RECURSIVE AddAll(_, _, _, _)
\* for x in &list[i..] { add(p, x) }
AddAll(p, list, i, kind) ==
    IF i > Len(list) THEN p
    ELSE AddAll(CASE kind = "wire" -> add_wire(p, list[i])
                  [] kind = "via"  -> add_via(p, list[i])
                  [] OTHER         -> add_debug_rt(p, list[i]),
                list, i + 1, kind)

\* apply_route_result that clears the buffer before it adds the result
apply_route_result_clearing(p, r) ==
    AddAll(AddAll(AddAll(EmptyPcb, r.wires, 1, "wire"), r.vias, 1, "via"),
           r.debug_rts, 1, "rt")

\* apply_route_result(pcb, r): the value of pcb afterwards
apply_route_result(p, r) ==
    AddAll(AddAll(AddAll(p, r.wires, 1, "wire"), r.vias, 1, "via"),
           r.debug_rts, 1, "rt")

\* Router::fitness: most wires of an outcome, longest wire, most vias and
\* most failed nets of the outcomes compared
MaxWires == 2
MaxWireLen == 2
MaxFitVias == 2
MaxFailed == 2
\* most vias of an outcome when a failed outcome is set against one that
\* did not fail
MaxVias == 101

\* crossover and mutate: number of net ids of a RouteState, and number of
\* operators applied in a row
NumPermNets == 3
MaxPermOps == 2

\* run_ga: number of nets of the Pcb and size of the population
NumGaNets == 3
PopSize == 2

\* the viewer: number of clicks on Route
NumClicks == 2

(***************************************************************************)
(* The aggregator as a state machine                                       *)
(***************************************************************************)
AggIdle ==
    /\ acc = DefaultResult
    /\ merged = <<>>
    /\ pcb = EmptyPcb
    /\ aggOp = "none"
    /\ aggArg = DefaultResult
    /\ aggPrev = [acc |-> DefaultResult, pcb |-> EmptyPcb]
    /\ napply = 0

AssocIdle ==
    /\ ma = DefaultResult
    /\ mb = DefaultResult
    /\ mc = DefaultResult
    /\ left = NoResult
    /\ right = NoResult

SegIdle ==
    /\ segA = NoResult
    /\ segB = NoResult
    /\ segRes = NoResult

TfIdle ==
    /\ tfA = NoResult
    /\ tfB = NoResult
    /\ tfRes = FALSE
    /\ tfRes0 = FALSE
    /\ tfN = 0
    /\ tfLast = "none"

ShIdle ==
    /\ shA = "none"
    /\ shB = "none"
    /\ shCall = "none"
    /\ shOutcome = "none"

DistIdle ==
    /\ distA = NoResult
    /\ distB = NoResult
    /\ distRes = NoResult

RouteIdle ==
    /\ rPcb = NoResult
    /\ rPcb0 = NoResult
    /\ rLock = NoTask
    /\ tasks = <<>>

FitIdle ==
    /\ fitA = NoResult
    /\ fitB = NoResult
    /\ fitRes = NoResult

PermIdle ==
    /\ permS1 = <<>>
    /\ permS2 = <<>>
    /\ permOp = [name |-> "none", changed |-> FALSE]
    /\ permN = 0

GaIdle ==
    /\ gaBoard = NoResult
    /\ gaRuns = {}
    /\ ga = <<>>

GuiIdle ==
    /\ guiPcb = NoResult
    /\ guiThreads = <<>>
    /\ guiLast = NoResult
    /\ guiOverlap = FALSE

KernelIdle ==
    AggIdle /\ AssocIdle /\ SegIdle /\ TfIdle /\ ShIdle /\ DistIdle /\ RouteIdle

DriverIdle == FitIdle /\ PermIdle /\ GaIdle /\ GuiIdle

InitAgg ==
    AggIdle /\ AssocIdle /\ SegIdle /\ TfIdle /\ ShIdle /\ DistIdle /\ RouteIdle
    /\ DriverIdle

\* acc.merge(r) for the next result r of the pass (an empty one included)
Merge ==
    /\ Len(merged) < MaxMerges
    /\ \E r \in Results(Len(merged) + 1, AggLen) :
         /\ acc' = merge(acc, r)
         /\ merged' = Append(merged, r)
         /\ aggArg' = r
    /\ aggOp' = "merge"
    /\ aggPrev' = [acc |-> acc, pcb |-> pcb]
    /\ UNCHANGED <<pcb, napply>>
    /\ UNCHANGED <<assocVars, segVars, tfVars, shVars, distVars, routeVars,
                 driverVars>>

\* apply_route_result(&mut pcb, &r) with the merged result or an empty one
Apply ==
    /\ napply < MaxApply
    /\ \E r \in {acc, DefaultResult} :
         /\ pcb' = apply_route_result(pcb, r)
         /\ aggArg' = r
    /\ aggOp' = "apply"
    /\ aggPrev' = [acc |-> acc, pcb |-> pcb]
    /\ napply' = napply + 1
    /\ UNCHANGED <<acc, merged>>
    /\ UNCHANGED <<assocVars, segVars, tfVars, shVars, distVars, routeVars,
                 driverVars>>

NextAgg == Merge \/ Apply

SpecAgg == InitAgg /\ [][NextAgg]_vars

(***************************************************************************)
(* merge on three operands, grouped both ways                              *)
(***************************************************************************)
InitAssoc ==
    /\ AggIdle /\ SegIdle /\ TfIdle /\ ShIdle /\ DistIdle /\ RouteIdle
    /\ DriverIdle
    /\ ma \in Results("a", AggLen)
    /\ mb \in Results("b", AggLen)
    /\ mc \in Results("c", AggLen)
    /\ left = NoResult
    /\ right = NoResult

\* a.merge(b); a.merge(c)
MergeLeft ==
    /\ left = NoResult
    /\ left' = merge(merge(ma, mb), mc)
    /\ UNCHANGED <<ma, mb, mc, right>>
    /\ UNCHANGED <<aggVars, segVars, tfVars, shVars, distVars, routeVars,
                 driverVars>>

\* b.merge(c); a.merge(b)
MergeRight ==
    /\ right = NoResult
    /\ right' = merge(ma, merge(mb, mc))
    /\ UNCHANGED <<ma, mb, mc, left>>
    /\ UNCHANGED <<aggVars, segVars, tfVars, shVars, distVars, routeVars,
                 driverVars>>

NextAssoc == MergeLeft \/ MergeRight

SpecAssoc == InitAssoc /\ [][NextAssoc]_vars

(***************************************************************************)
(* Geometry kernel: numbers                                                *)
(*                                                                         *)
(* Coordinates are f64 in the program.  The model keeps them in fixed      *)
(* point: a coordinate c stands for c / Unit, a product of two coordinate  *)
(* differences (a cross product, a squared distance) a for a / Unit^2.     *)
(* Sums, differences and products are computed without rounding, as f64    *)
(* computes them on whole numbers of this size.                            *)
(***************************************************************************)
\* pub const EP: f64 = 1e-6, as 1 / EPInv
EPInv == 1000000
\* the model's fixed-point unit: 1.0 is Unit, so that EP is a whole number
\* (4) of units of area
Unit == 2000

Abs(v) == IF v < 0 THEN -v ELSE v
Min(a, b) == IF a <= b THEN a ELSE b
Max(a, b) == IF a >= b THEN a ELSE b

\* f64_eq(a, b) = relative_eq!(a, b, epsilon = EP) for two quantities kept
\* at fixed-point scale `scale` (Unit for lengths, Unit * Unit for areas):
\* |a - b| <= EP.  (The relative bound, max(|a|,|b|) * f64::EPSILON, is
\* below the model's resolution.)
f64_eq(a, b, scale) == Abs(a - b) <= scale \div EPInv
f64_ne(a, b, scale) == ~f64_eq(a, b, scale)
f64_gt(a, b, scale) == f64_ne(a, b, scale) /\ a > b
f64_ge(a, b, scale) == f64_eq(a, b, scale) \/ a > b
\* le, lt: the mirror images math.rs of intersects.rs imports
f64_le(a, b, scale) == f64_eq(a, b, scale) \/ a < b
f64_lt(a, b, scale) == f64_ne(a, b, scale) /\ a < b

Area == Unit * Unit

(***************************************************************************)
(* Geometry kernel: points, segments, rectangles                           *)
(***************************************************************************)
pt(x, y) == [x |-> x, y |-> y]
seg(st, en) == [st |-> st, en |-> en]

\* Pt::cross of the vectors a and b
cross(a, b) == a.x * b.y - a.y * b.x

\* Return cross-product of OA and OB.
cross_at(o, a, b) == cross(pt(o.x - a.x, o.y - a.y), pt(o.x - b.x, o.y - b.y))

\* Returns true if p is strictly left of line defined by ST EN.
is_strictly_left_of(p, st, en) == f64_gt(cross_at(st, en, p), 0, Area)

is_collinear(a, b, c) == f64_eq(cross_at(a, b, c), 0, Area)

\* orientation(line, p): 0 when p is on the line through l.st and l.en
\* (within EP), 1 when it is to the left of it, -1 when to the right
orientation(l, p) ==
    IF is_collinear(l.st, l.en, p) THEN 0
    ELSE IF is_strictly_left_of(p, l.st, l.en) THEN 1 ELSE -1

\* Segment::line: the supporting line, through st and en
line(s) == [st |-> s.st, en |-> s.en]

\* Rt::enclosing(a, b): the bounding rectangle of two points
Rt_enclosing(a, b) ==
    [l |-> Min(a.x, b.x), b |-> Min(a.y, b.y),
     r |-> Max(a.x, b.x), t |-> Max(a.y, b.y)]

\* Rt::contains(p): p is in the closed rectangle (within EP)
Rt_contains(rt, p) ==
    /\ f64_ge(p.x, rt.l, Unit) /\ f64_ge(p.y, rt.b, Unit)
    /\ f64_le(p.x, rt.r, Unit) /\ f64_le(p.y, rt.t, Unit)

\* seg_intersects_seg with the collinear checks of a's end points only
seg_intersects_seg_a_only(a, b) ==
    LET a_st == orientation(line(b), a.st)
        a_en == orientation(line(b), a.en)
        b_st == orientation(line(a), b.st)
        b_en == orientation(line(a), b.en)
        b_rt == Rt_enclosing(b.st, b.en)
    IN  IF a_st # a_en /\ b_st # b_en THEN TRUE
        ELSE IF a_st = 0 /\ Rt_contains(b_rt, a.st) THEN TRUE
        ELSE IF a_en = 0 /\ Rt_contains(b_rt, a.en) THEN TRUE
        ELSE FALSE

\* seg_intersects_seg whose collinear checks look at the x coordinates only
seg_intersects_seg_x_only(a, b) ==
    LET a_st == orientation(line(b), a.st)
        a_en == orientation(line(b), a.en)
        b_st == orientation(line(a), b.st)
        b_en == orientation(line(a), b.en)
        a_rt == Rt_enclosing(a.st, a.en)
        b_rt == Rt_enclosing(b.st, b.en)
        InX(rt, p) == rt.l <= p.x /\ p.x <= rt.r
    IN  IF a_st # a_en /\ b_st # b_en THEN TRUE
        ELSE IF a_st = 0 /\ InX(b_rt, a.st) THEN TRUE
        ELSE IF a_en = 0 /\ InX(b_rt, a.en) THEN TRUE
        ELSE IF b_st = 0 /\ InX(a_rt, b.st) THEN TRUE
        ELSE IF b_en = 0 /\ InX(a_rt, b.en) THEN TRUE
        ELSE FALSE

\* seg_intersects_seg that takes any collinear end point for a touch,
\* without the bounding-rectangle checks
seg_intersects_seg_no_rt(a, b) ==
    LET a_st == orientation(line(b), a.st)
        a_en == orientation(line(b), a.en)
        b_st == orientation(line(a), b.st)
        b_en == orientation(line(a), b.en)
    IN  IF a_st # a_en /\ b_st # b_en THEN TRUE
        ELSE a_st = 0 \/ a_en = 0 \/ b_st = 0 \/ b_en = 0

\* seg_intersects_seg(a, b)
seg_intersects_seg(a, b) ==
    LET \* Check if the segment endpoints are on opposite sides of the other segment.
        a_st == orientation(line(b), a.st)
        a_en == orientation(line(b), a.en)
        b_st == orientation(line(a), b.st)
        b_en == orientation(line(a), b.en)
        a_rt == Rt_enclosing(a.st, a.en)
        b_rt == Rt_enclosing(b.st, b.en)
    IN  \* No collinear points. Everything on different sides.
        IF a_st # a_en /\ b_st # b_en THEN TRUE
        \* Check collinear cases.
        ELSE IF a_st = 0 /\ Rt_contains(b_rt, a.st) THEN TRUE
        ELSE IF a_en = 0 /\ Rt_contains(b_rt, a.en) THEN TRUE
        ELSE IF b_st = 0 /\ Rt_contains(a_rt, b.st) THEN TRUE
        ELSE IF b_en = 0 /\ Rt_contains(a_rt, b.en) THEN TRUE
        ELSE FALSE

\* test_seg_seg_permutations(a, b, _): the four calls of the test, with the
\* arguments swapped and the end points of both segments reversed
seg_seg_permutations(a, b) ==
    LET ra == seg(a.en, a.st)
        rb == seg(b.en, b.st)
    IN  [ab     |-> seg_intersects_seg(a, b),
         ba     |-> seg_intersects_seg(b, a),
         rev_ab |-> seg_intersects_seg(ra, rb),
         rev_ba |-> seg_intersects_seg(rb, ra)]

(***************************************************************************)
(* seg_intersects_seg on every pair of grid segments                       *)
(***************************************************************************)
\* the points with whole coordinates 0..n, in fixed point
GridPts(n) == { pt(x * Unit, y * Unit) : x \in 0..n, y \in 0..n }
\* the segments between them, zero-length ones included
GridSegs(n) == { seg(p, q) : p \in GridPts(n), q \in GridPts(n) }

InitSeg ==
    /\ AggIdle /\ AssocIdle /\ TfIdle /\ ShIdle /\ DistIdle /\ RouteIdle
    /\ DriverIdle
    /\ segA \in GridSegs(SegGrid)
    /\ segB \in GridSegs(SegGrid)
    /\ segRes = NoResult

\* test_seg_seg_permutations(&segA, &segB, _)
EvalSegSeg ==
    /\ segRes = NoResult
    /\ segRes' = seg_seg_permutations(segA, segB)
    /\ UNCHANGED <<segA, segB>>
    /\ UNCHANGED <<aggVars, assocVars, tfVars, shVars, distVars, routeVars,
                 driverVars>>

NextSeg == EvalSegSeg

SpecSeg == InitSeg /\ [][NextSeg]_vars

(***************************************************************************)
(* test_seg_seg: the seed cases under transforms                           *)
(***************************************************************************)
\* pt(x, y) and seg(pt(..), pt(..)) of whole numbers, as the table writes them
upt(x, y) == pt(x * Unit, y * Unit)
useg(x1, y1, x2, y2) == seg(upt(x1, y1), upt(x2, y2))

\* const SEG_SEG_TESTS: &[(Segment, Segment, bool)]
SEG_SEG_TESTS ==
    { <<useg(1, 1, 3, 4), useg(2, 4, 3, 1), TRUE>>,    \* Crossing
      <<useg(1, 1, 2, 3), useg(2, 3, 4, 1), TRUE>>,    \* Shared endpoints, not parallel
      <<useg(1, 1, 3, 2), useg(3, 2, 5, 3), TRUE>>,    \* Shared endpoints, parallel
      <<useg(1, 1, 3, 3), useg(2, 4, 4, 2), TRUE>>,    \* Endpoint abutting segment
      <<useg(1, 1, 1, 1), useg(1, 1, 1, 1), TRUE>>,    \* Same segments (points)
      <<useg(1, 1, 3, 1), useg(2, 1, 4, 1), TRUE>>,    \* Parallel and overlapping
      <<useg(1, 1, 4, 1), useg(2, 1, 3, 1), TRUE>>,    \* Parallel and contained
      <<useg(1, 1, 3, 1), useg(1, 1, 4, 1), TRUE>>,    \* Parallel, one shared endpoint
      <<useg(1, 1, 3, 1), useg(2, 1, 2, 1), TRUE>>,    \* A point on the other segment
      <<useg(1, 1, 3, 1), useg(3, 1, 3, 1), TRUE>>,    \* A point on the other's endpoint
      <<useg(1, 3, 3, 1), useg(2, 4, 4, 2), FALSE>>,   \* Parallel, not intersecting
      <<useg(1, 1, 3, 3), useg(4, 2, 5, 1), FALSE>>,   \* Perpendicular, not intersecting
      <<useg(1, 1, 3, 3), useg(3, 1, 4, 0), FALSE>>,   \* Perpendicular, not intersecting
      <<useg(1, 1, 1, 1), useg(2, 1, 2, 1), FALSE>>,   \* Both are points
      <<useg(1, 1, 3, 3), useg(4, 4, 4, 4), FALSE>>,   \* A collinear point outside
      <<useg(1, 1, 3, 3), useg(1, 2, 1, 2), FALSE>> }  \* A point off the segment

\* -p
pt_neg(p) == pt(-p.x, -p.y)
\* Tf::translate(v).pt(p)
pt_translate(v, p) == pt(p.x + v.x, p.y + v.y)
\* Tf::rotate(90).pt(p): a quarter turn
pt_rotate90(p) == pt(-p.y, p.x)
\* (Tf::rotate(45) * Tf::scale(pt(sqrt 2, sqrt 2))).pt(p): an eighth of a
\* turn with the scale that keeps whole coordinates whole
pt_rotate45_scale(p) == pt(p.x - p.y, p.x + p.y)
\* Tf::scale(pt(k.nx / k.d, k.ny / k.d)).pt(p)
pt_scale(k, p) == pt((p.x * k.nx) \div k.d, (p.y * k.ny) \div k.d)

\* Tf::seg: the transform applied to both end points
seg_neg(s) == seg(pt_neg(s.st), pt_neg(s.en))
seg_translate(v, s) == seg(pt_translate(v, s.st), pt_translate(v, s.en))
seg_rotate90(s) == seg(pt_rotate90(s.st), pt_rotate90(s.en))
seg_rotate45_scale(s) == seg(pt_rotate45_scale(s.st), pt_rotate45_scale(s.en))
seg_scale(k, s) == seg(pt_scale(k, s.st), pt_scale(k, s.en))

\* the scale factors tried: the test's (-0.4, 0.7), and a small one, 1 / Unit
\* (0.0005) on both axes
TfScales == { [nx |-> -4, ny |-> 7, d |-> 10], [nx |-> 1, ny |-> 1, d |-> Unit] }
\* the translation of the test, pt(-3.0, 4.0)
TfTranslation == upt(-3, 4)

\* the scale k maps the end points of s without rounding
ScalesExactly(k, s) ==
    \A p \in {s.st, s.en} : (p.x * k.nx) % k.d = 0 /\ (p.y * k.ny) % k.d = 0

\* coordinates stay in the range where the model's products do not overflow
CoordLimit == 8 * Unit
InRange(s) ==
    \A p \in {s.st, s.en} : Abs(p.x) <= CoordLimit /\ Abs(p.y) <= CoordLimit

InitTf ==
    /\ AggIdle /\ AssocIdle /\ SegIdle /\ ShIdle /\ DistIdle /\ RouteIdle
    /\ DriverIdle
    /\ \E c \in SEG_SEG_TESTS :
         /\ tfA = c[1]
         /\ tfB = c[2]
         /\ tfRes = seg_intersects_seg(c[1], c[2])
         /\ tfRes0 = seg_intersects_seg(c[1], c[2])
    /\ tfN = 0
    /\ tfLast = "none"

\* the pair becomes (a, b), and test_seg_seg_permutations calls
\* seg_intersects_seg on it
Transformed(a, b, name) ==
    /\ tfN < MaxTf
    /\ InRange(a) /\ InRange(b)
    /\ tfA' = a
    /\ tfB' = b
    /\ tfRes' = seg_intersects_seg(a, b)
    /\ tfN' = tfN + 1
    /\ tfLast' = name
    /\ UNCHANGED tfRes0
    /\ UNCHANGED <<aggVars, assocVars, segVars, shVars, distVars, routeVars,
                 driverVars>>

\* Negating pts
Negate == Transformed(seg_neg(tfA), seg_neg(tfB), "negate")

\* Rotating
Rotate ==
    \/ Transformed(seg_rotate90(tfA), seg_rotate90(tfB), "rotate90")
    \/ Transformed(seg_rotate45_scale(tfA), seg_rotate45_scale(tfB), "rotate45")

\* Translating
Translate ==
    Transformed(seg_translate(TfTranslation, tfA), seg_translate(TfTranslation, tfB),
                "translate")

\* Scaling
Scale ==
    \E k \in TfScales :
        /\ ScalesExactly(k, tfA) /\ ScalesExactly(k, tfB)
        /\ Transformed(seg_scale(k, tfA), seg_scale(k, tfB),
                       IF k.d = Unit THEN "scale_small" ELSE "scale")

NextTf == Negate \/ Rotate \/ Translate \/ Scale

SpecTf == InitTf /\ [][NextTf]_vars

(***************************************************************************)
(* Shape::intersects and Shape::contains                                   *)
(***************************************************************************)
\* enum Shape
ShapeVariants ==
    {"Circle", "Line", "Path", "Point", "Polygon", "Rect", "Segment", "Tri"}

\* a call that returns the boolean v
Returned(v) == IF v THEN "true" ELSE "false"

\* Shape::intersects(&self, s): the match on (self, s).  Two arms call
\* rt_intersects_polygon, whose boolean is v here; every other arm is todo!(),
\* which panics.
Shape_intersects(a, b, v) ==
    CASE a = "Polygon" /\ b = "Rect" -> Returned(v)
      [] a = "Rect" /\ b = "Polygon" -> Returned(v)
      [] OTHER -> "panic"

\* Shape::contains(&self, s): one arm calls polygon_contains_rt, whose boolean
\* is v here; every other arm is todo!()
Shape_contains(a, b, v) ==
    CASE a = "Polygon" /\ b = "Rect" -> Returned(v)
      [] OTHER -> "panic"

InitShape ==
    /\ AggIdle /\ AssocIdle /\ SegIdle /\ TfIdle /\ DistIdle /\ RouteIdle
    /\ DriverIdle
    /\ shA \in ShapeVariants
    /\ shB \in ShapeVariants
    /\ shCall = "none"
    /\ shOutcome = "none"

\* shA.intersects(&shB)
CallIntersects ==
    /\ shCall = "none"
    /\ shCall' = "intersects"
    /\ \E v \in BOOLEAN : shOutcome' = Shape_intersects(shA, shB, v)
    /\ UNCHANGED <<shA, shB>>
    /\ UNCHANGED <<aggVars, assocVars, segVars, tfVars, distVars, routeVars,
                 driverVars>>

\* shA.contains(&shB)
CallContains ==
    /\ shCall = "none"
    /\ shCall' = "contains"
    /\ \E v \in BOOLEAN : shOutcome' = Shape_contains(shA, shB, v)
    /\ UNCHANGED <<shA, shB>>
    /\ UNCHANGED <<aggVars, assocVars, segVars, tfVars, distVars, routeVars,
                 driverVars>>

NextShape == CallIntersects \/ CallContains

SpecShape == InitShape /\ [][NextShape]_vars

(***************************************************************************)
(* Distances                                                               *)
(*                                                                         *)
(* A distance between points is kept as its square (an area): the square   *)
(* root is increasing, so the least distance is the one with the least     *)
(* square, and a distance is 0 exactly when its square is.                 *)
(***************************************************************************)
rt(l, b, r, t) == [kind |-> "rt", l |-> l, b |-> b, r |-> r, t |-> t]
circ(p, r) == [kind |-> "circ", p |-> p, r |-> r]

\* Rt::pts: the four corners
Rt_pts(a) == <<pt(a.l, a.b), pt(a.r, a.b), pt(a.r, a.t), pt(a.l, a.t)>>

\* Rt::intersects(b): the closed rectangles overlap or touch
Rt_intersects(a, b) ==
    /\ f64_le(a.l, b.r, Unit) /\ f64_ge(a.r, b.l, Unit)
    /\ f64_le(a.b, b.t, Unit) /\ f64_ge(a.t, b.b, Unit)

\* Pt::clamp(rt): the point of the rectangle nearest to p
Pt_clamp(p, b) == pt(Max(b.l, Min(p.x, b.r)), Max(b.b, Min(p.y, b.t)))

\* Pt::dist, squared
Pt_dist2(p, q) == (p.x - q.x) * (p.x - q.x) + (p.y - q.y) * (p.y - q.y)

\* the least member of a non-empty set of numbers: min_by(f64_cmp)
MinOf(S) == CHOOSE m \in S : \A v \in S : m <= v

\* pt_rt_dist(a, b), squared
pt_rt_dist(a, b) ==
    LET \* Project centre onto the rectangle:
        p == Pt_clamp(a, b)
    IN  Pt_dist2(p, a)

\* rt_rt_dist(a, b), squared
rt_rt_dist(a, b) ==
    \* check points on a to b
    MinOf({ pt_rt_dist(Rt_pts(a)[i], b) : i \in 1..4 })

\* rt_intersects_rt(a, b)
rt_intersects_rt(a, b) == Rt_intersects(a, b)

\* circ_rt_dist(a, b): the distance from the projected centre minus the
\* radius, kept as the pair (d2, r) that stands for sqrt(d2) - r
circ_rt_dist(a, b) ==
    LET \* Project circle centre onto the rectangle:
        p == Pt_clamp(a.p, b)
    IN  [d2 |-> Pt_dist2(p, a.p), r |-> a.r]

\* sqrt(v.d2) - v.r compared with 0.  d2 and r * r are whole multiples of
\* Unit * Unit here, so the value is 0 or further than EP from it.
SqrtDiffIsZero(v) == v.d2 = v.r * v.r
SqrtDiffIsNegative(v) == v.d2 < v.r * v.r
\* lt(v, 0.0)
SqrtDiff_lt0(v) == ~SqrtDiffIsZero(v) /\ SqrtDiffIsNegative(v)

\* circ_intersect_rt(a, b)
circ_intersect_rt(a, b) ==
    \* Check if the circle centre is contained in the rect or
    \* the distance from the boundary of the rect to the circle is less than 0.
    Rt_contains(b, a.p) \/ SqrtDiff_lt0(circ_rt_dist(a, b))

\* the rectangles with whole corners in 0..n and a positive width and height
GridRts(n) ==
    { rt(l * Unit, b * Unit, r * Unit, t * Unit) :
        <<l, b, r, t>> \in
          { q \in (0..n) \X (0..n) \X (0..n) \X (0..n) : q[1] < q[3] /\ q[2] < q[4] } }
\* the circles with whole centres in 0..n and radius 1..n
GridCircs(n) == { circ(p, r * Unit) : p \in GridPts(n), r \in 1..n }

InitDist ==
    /\ AggIdle /\ AssocIdle /\ SegIdle /\ TfIdle /\ ShIdle /\ RouteIdle
    /\ DriverIdle
    /\ distA \in GridRts(DistGrid) \cup GridCircs(DistGrid)
    /\ distB \in GridRts(DistGrid)
    /\ distRes = NoResult

\* rt_intersects_rt(&distA, &distB) and rt_rt_dist(&distA, &distB)
RtRtDist ==
    /\ distRes = NoResult
    /\ distA.kind = "rt"
    /\ distRes' = [intersects |-> rt_intersects_rt(distA, distB),
                   dist2      |-> rt_rt_dist(distA, distB)]
    /\ UNCHANGED <<distA, distB>>
    /\ UNCHANGED <<aggVars, assocVars, segVars, tfVars, shVars, routeVars,
                 driverVars>>

\* circ_intersect_rt(&distA, &distB) and circ_rt_dist(&distA, &distB)
CircRtDist ==
    /\ distRes = NoResult
    /\ distA.kind = "circ"
    /\ distRes' = [intersects |-> circ_intersect_rt(distA, distB),
                   dist       |-> circ_rt_dist(distA, distB)]
    /\ UNCHANGED <<distA, distB>>
    /\ UNCHANGED <<aggVars, assocVars, segVars, tfVars, shVars, routeVars,
                 driverVars>>

NextDist == RtRtDist \/ CircRtDist

SpecDist == InitDist /\ [][NextDist]_vars

(***************************************************************************)
(* Point to segment distance (distance.rs)                                 *)
(*                                                                         *)
(* The end points and the point have whole coordinates.  The projection of *)
(* the point on the supporting line is st + (k / mag2) * dir with whole k  *)
(* and mag2, so it is kept as the numerators x, y over the denominator     *)
(* den = mag2.  Distances are compared by their squares, kept as fractions *)
(* num / den.  0 / 0 stands for NaN.                                       *)
(***************************************************************************)

\* a quantity kept as the fraction num / den
frac(n, d) == [num |-> n, den |-> d]
is_nan(a) == a.den = 0
\* a <= b for two fractions with positive denominators
frac_le(a, b) == a.num * b.den <= b.num * a.den
frac_eq(a, b) == a.num * b.den = b.num * a.den

\* f64::min: the lesser operand; when one operand is NaN, the other one
f64_min(a, b) ==
    IF is_nan(b) THEN a
    ELSE IF is_nan(a) THEN b
    ELSE IF frac_le(a, b) THEN a ELSE b

\* Pt::dot
dot(a, b) == a.x * b.x + a.y * b.y

\* Line::dir: en - st
Line_dir(l) == pt(l.en.x - l.st.x, l.en.y - l.st.y)

\* Pt::mag2
mag2(v) == dot(v, v)

\* Line::project(p): st + k * dir with k = (p - st) . dir / dir.mag2(); on a
\* line of zero length k is 0.0 / 0.0 and both coordinates are NaN
Line_project(l, p) ==
    LET dir == Line_dir(l)
        k   == dot(pt(p.x - l.st.x, p.y - l.st.y), dir)
        den == mag2(dir)
    IN  [x |-> den * l.st.x + k * dir.x, y |-> den * l.st.y + k * dir.y,
         den |-> den]

\* a.dist(q), squared, of the whole point a and the projection q
Pt_dist_project(a, q) ==
    frac((q.x - q.den * a.x) * (q.x - q.den * a.x)
           + (q.y - q.den * a.y) * (q.y - q.den * a.y),
         q.den * q.den)

\* a.dist(b), squared, of two whole points
Pt_dist(a, b) == frac(Pt_dist2(a, b), 1)

\* Segment::contains(q) of a projection q: q is collinear with the end
\* points and inside their bounding rectangle, both within EP.  Quantities
\* at the scale q.den differ by 0 or by 1 / q.den, further apart than EP.
\* The comparisons of a NaN point are not fixed by the description: nan is
\* the answer they give.
Segment_contains(s, q, nan) ==
    IF q.den = 0 THEN nan
    ELSE /\ f64_eq(cross(Line_dir(s),
                         pt(q.x - q.den * s.st.x, q.y - q.den * s.st.y)),
                   0, q.den)
         /\ f64_ge(q.x, q.den * Min(s.st.x, s.en.x), q.den)
         /\ f64_le(q.x, q.den * Max(s.st.x, s.en.x), q.den)
         /\ f64_ge(q.y, q.den * Min(s.st.y, s.en.y), q.den)
         /\ f64_le(q.y, q.den * Max(s.st.y, s.en.y), q.den)

\* pt_seg_dist without the containment test: the perpendicular distance is
\* always taken into the minimum
pt_seg_dist_unchecked(a, b, nan) ==
    LET st_dist == Pt_dist(a, b.st)
        en_dist == Pt_dist(a, b.en)
        project == Line_project(line(b), a)
        dist    == f64_min(st_dist, en_dist)
    IN  f64_min(dist, Pt_dist_project(a, project))

\* pt_seg_dist(a, b), squared
pt_seg_dist(a, b, nan) ==
    LET st_dist == Pt_dist(a, b.st)
        en_dist == Pt_dist(a, b.en)
        project == Line_project(line(b), a)
        dist    == f64_min(st_dist, en_dist)
    IN  IF Segment_contains(b, project, nan)
        THEN f64_min(dist, Pt_dist_project(a, project))
        ELSE dist

\* the points with whole coordinates in 0..n
WholePts(n) == { pt(x, y) : x \in 0..n, y \in 0..n }
\* the segments between them, zero-length ones included
WholeSegs(n) == { seg(p, q) : p \in WholePts(n), q \in WholePts(n) }

InitPtSeg ==
    /\ AggIdle /\ AssocIdle /\ SegIdle /\ TfIdle /\ ShIdle /\ RouteIdle
    /\ DriverIdle
    /\ distA \in WholePts(PtSegGrid)
    /\ distB \in WholeSegs(PtSegGrid)
    /\ distRes = NoResult

\* pt_seg_dist(&distA, &distB)
PtSegDist ==
    /\ distRes = NoResult
    /\ \E nan \in BOOLEAN :
         distRes' = [dist |-> pt_seg_dist(distA, distB, nan)]
    /\ UNCHANGED <<distA, distB>>
    /\ UNCHANGED <<aggVars, assocVars, segVars, tfVars, shVars, routeVars,
                 driverVars>>

NextPtSeg == PtSegDist

SpecPtSeg == InitPtSeg /\ [][NextPtSeg]_vars

(***************************************************************************)
(* Router::route                                                           *)
(*                                                                         *)
(* The grid router is not part of the kernel modelled above; it is kept    *)
(* here as a small deterministic router with the contract of GridRouter:   *)
(* it owns the Pcb it was given, routes the nets strictly in the given     *)
(* order, every wire it places blocks the nets that cross it, a net that   *)
(* cannot be routed sets failed and routing goes on.                       *)
(***************************************************************************)
Nets == 1..NumNets
Tasks == 1..NumTasks

\* pairs of nets whose straight routes cross
NetPairs == { q \in Nets \X Nets : q[1] < q[2] }

\* the net orders: the permutations of the net ids
NetOrders ==
    { o \in [1..NumNets -> Nets] : \A i, j \in 1..NumNets : o[i] = o[j] => i = j }

\* a board with no wires, on which the net pairs in c cross
BoardWith(c) ==
    [crossings |-> c, wires |-> <<>>, vias |-> <<>>, debug_rts |-> <<>>]

Crossing(p, n, m) == <<n, m>> \in p.crossings \/ <<m, n>> \in p.crossings

\* a wire already on the board, of a net that crosses n, is in the way of n
\* on that wire's layer
Blocked(p, n, layer) ==
    \E i \in 1..Len(p.wires) :
        /\ p.wires[i].net # n
        /\ Crossing(p, p.wires[i].net, n)
        /\ p.wires[i].layer = layer

\* GridRouter: route one net on the router's own board p: on the top layer
\* when nothing is in the way, else on the bottom layer with a via at each
\* end, else not at all
grid_route_net(p, n) ==
    IF ~Blocked(p, n, "top")
    THEN [wires |-> <<[net |-> n, layer |-> "top"]>>, vias |-> <<>>,
          debug_rts |-> <<>>, failed |-> FALSE]
    ELSE IF ~Blocked(p, n, "bottom")
    THEN [wires |-> <<[net |-> n, layer |-> "bottom"]>>,
          vias |-> <<[net |-> n, at |-> "st"], [net |-> n, at |-> "en"]>>,
          debug_rts |-> <<>>, failed |-> FALSE]
    ELSE [wires |-> <<>>, vias |-> <<>>, debug_rts |-> <<>>, failed |-> TRUE]

RECURSIVE grid_route_from(_, _, _, _)
\* GridRouter::route from position i of the order, with result res so far
grid_route_from(p, order, i, res) ==
    IF i > Len(order) THEN res
    ELSE LET r == grid_route_net(p, order[i])
         IN  grid_route_from(apply_route_result(p, r), order, i + 1, merge(res, r))

\* GridRouter::new(pcb, net_order).route(), run on its own
grid_route(p, order) == grid_route_from(p, order, 1, DefaultResult)

\* Router::route that routes on the Router's Pcb in place
route_in_place(shared, routed) == routed

\* The Router's Pcb after a route call whose grid ended with the board
\* `routed`: the grid was built on a clone, so the Router's Pcb is as it was
Router_pcb_after_route(shared, routed) == shared

IdleTask ==
    [pc |-> "idle", order |-> <<>>, grid |-> NoResult, pos |-> 0,
     res |-> DefaultResult]

InitRoute ==
    /\ AggIdle /\ AssocIdle /\ SegIdle /\ TfIdle /\ ShIdle /\ DistIdle
    /\ DriverIdle
    /\ \E c \in SUBSET NetPairs :
         /\ rPcb = BoardWith(c)
         /\ rPcb0 = BoardWith(c)
    /\ rLock = NoTask
    /\ tasks = [w \in Tasks |-> IdleTask]

RouteFrame ==
    UNCHANGED <<aggVars, assocVars, segVars, tfVars, shVars, distVars, driverVars>>

\* a worker calls router.route(net_order) and reaches self.pcb.lock()
RouteCall(w) ==
    /\ tasks[w].pc = "idle"
    /\ \E o \in NetOrders :
         tasks' = [tasks EXCEPT ![w] = [@ EXCEPT !.pc = "lock", !.order = o]]
    /\ UNCHANGED <<rPcb, rPcb0, rLock>>
    /\ RouteFrame

\* self.pcb.lock().unwrap(): returns once no other call holds the Mutex
RouteLock(w) ==
    /\ tasks[w].pc = "lock"
    /\ rLock = NoTask
    /\ rLock' = w
    /\ tasks' = [tasks EXCEPT ![w] = [@ EXCEPT !.pc = "locked"]]
    /\ UNCHANGED <<rPcb, rPcb0>>
    /\ RouteFrame

\* GridRouter::new(guard.clone(), net_order); the guard is dropped at the end
\* of the statement
RouteNewGrid(w) ==
    /\ tasks[w].pc = "locked"
    /\ rLock = w
    /\ tasks' = [tasks EXCEPT ![w] =
                    [@ EXCEPT !.pc = "routing", !.grid = rPcb, !.pos = 0,
                              !.res = DefaultResult]]
    /\ rLock' = NoTask
    /\ UNCHANGED <<rPcb, rPcb0>>
    /\ RouteFrame

\* grid.route(): the next net of the order, on the grid's own board
GridRouteNet(w) ==
    /\ tasks[w].pc = "routing"
    /\ tasks[w].pos < Len(tasks[w].order)
    /\ LET t == tasks[w]
           r == grid_route_net(t.grid, t.order[t.pos + 1])
       IN  tasks' = [tasks EXCEPT ![w] =
                        [@ EXCEPT !.grid = apply_route_result(t.grid, r),
                                  !.pos = t.pos + 1,
                                  !.res = merge(t.res, r)]]
    /\ UNCHANGED <<rPcb, rPcb0, rLock>>
    /\ RouteFrame

\* route returns the RouteResult; the grid is dropped
RouteReturn(w) ==
    /\ tasks[w].pc = "routing"
    /\ tasks[w].pos = Len(tasks[w].order)
    /\ rPcb' = Router_pcb_after_route(rPcb, tasks[w].grid)
    /\ tasks' = [tasks EXCEPT ![w] = [@ EXCEPT !.pc = "done", !.grid = NoResult]]
    /\ UNCHANGED <<rPcb0, rLock>>
    /\ RouteFrame

NextRoute ==
    \E w \in Tasks :
        \/ RouteCall(w)
        \/ RouteLock(w)
        \/ RouteNewGrid(w)
        \/ GridRouteNet(w)
        \/ RouteReturn(w)

SpecRoute == InitRoute /\ [][NextRoute]_vars

(***************************************************************************)
(* Router::fitness (impl Evaluator for Router)                             *)
(*                                                                         *)
(* A route outcome is a RouteResult together with the number of nets that  *)
(* failed in it, which the RouteResult itself does not record: it has the  *)
(* one flag failed.  A wire carries the length of its path.  The fitness   *)
(* 1.0 / (1.0 + cost) is kept as the exact fraction num / den.             *)
(***************************************************************************)
\* Wire: the wire of a net with a path of length len
wire(n, len) == [net |-> n, len |-> len]

\* n vias
ViasOf(n) == [i \in 1..n |-> [net |-> 1, at |-> i]]

\* a route outcome with the wires ws and nv vias in which nf nets failed
MkOutcome(ws, nv, nf) ==
    [res |-> [wires |-> ws, vias |-> ViasOf(nv), debug_rts |-> <<>>,
              failed |-> nf > 0],
     nfailed |-> nf]

\* the wire lists of up to n wires with lengths up to maxlen
WireLists(n, maxlen) ==
    UNION { { [i \in 1..k |-> wire(i, f[i])] : f \in [1..k -> 1..maxlen] } : k \in 0..n }

RECURSIVE SumLen(_, _)
\* the total length of the wires ws[i..]
SumLen(ws, i) == IF i > Len(ws) THEN 0 ELSE ws[i].len + SumLen(ws, i + 1)

\* cost with the failure penalty no larger than the penalty of a via
cost_fail_as_via(res) ==
    (IF res.failed THEN 10 ELSE 0) + Len(res.vias) * 10

\* the cost computed in Router::fitness: 1000 when the result failed, 10 for
\* every via; wire lengths are not counted
cost(res) ==
    (IF res.failed THEN 1000 ELSE 0) + Len(res.vias) * 10

\* Router::fitness once route has returned res: Ok(1.0 / (1.0 + cost))
fitness(res) == [num |-> 1, den |-> 1 + cost(res)]

\* f < g for fitness values
FitLess(f, g) == f.num * g.den < g.num * f.den

InitFit ==
    /\ KernelIdle /\ PermIdle /\ GaIdle /\ GuiIdle
    /\ fitA \in { MkOutcome(ws, nv, nf) : ws \in WireLists(MaxWires, MaxWireLen),
                                           nv \in 0..MaxFitVias, nf \in 0..MaxFailed }
    /\ fitB \in { MkOutcome(ws, nv, nf) : ws \in WireLists(MaxWires, MaxWireLen),
                                           nv \in 0..MaxFitVias, nf \in 0..MaxFailed }
    /\ fitRes = NoResult

\* a failed outcome against one that did not fail, each with any number of
\* vias
InitDom ==
    /\ KernelIdle /\ PermIdle /\ GaIdle /\ GuiIdle
    /\ fitA \in { MkOutcome(<<>>, nv, 1) : nv \in 0..MaxVias }
    /\ fitB \in { MkOutcome(<<wire(1, 1)>>, nv, 0) : nv \in 0..MaxVias }
    /\ fitRes = NoResult

\* the driver evaluates the fitness of both outcomes
EvalFitness ==
    /\ fitRes = NoResult
    /\ fitRes' = [costA |-> cost(fitA.res), costB |-> cost(fitB.res),
                  a |-> fitness(fitA.res), b |-> fitness(fitB.res)]
    /\ UNCHANGED <<fitA, fitB>>
    /\ UNCHANGED <<kernelVars, permVars, gaVars, guiVars>>

NextFit == EvalFitness

SpecFit == InitFit /\ [][NextFit]_vars

SpecDom == InitDom /\ [][NextFit]_vars

(***************************************************************************)
(* RouteState, Evaluator::crossover and Evaluator::mutate                  *)
(*                                                                         *)
(* The operators crossover and mutate dispatch to are the permutation      *)
(* operators of the evolution library: partially-mapped, order and cycle   *)
(* crossover; swap, insert, scramble and inversion mutation.  Their random *)
(* draws (cut points, positions, the scrambled order) are parameters here. *)
(***************************************************************************)
PermNets == 1..NumPermNets

\* the orders a shuffle of the list s can produce
Shuffles(s) ==
    { [i \in 1..Len(s) |-> s[f[i]]] :
        f \in { g \in [1..Len(s) -> 1..Len(s)] :
                  \A i, j \in 1..Len(s) : g[i] = g[j] => i = j } }

\* the list of net ids of the Pcb, as run_ga collects it
net_order_of(nets) == [i \in 1..Cardinality(nets) |-> i]

\* genfn of run_ga: a shuffled clone of net_order
genfn(net_order) == Shuffles(net_order)

\* the position of v in s
IndexOf(s, v) == CHOOSE i \in 1..Len(s) : s[i] = v

RECURSIVE PmxResolve(_, _, _, _, _)
\* partially-mapped crossover: the value for a position outside st..en that
\* holds v in a, when the child has b's values in st..en
PmxResolve(v, a, b, st, en) ==
    IF \E j \in st..en : b[j] = v
    THEN PmxResolve(a[IndexOf(b, v)], a, b, st, en)
    ELSE v

\* one child of the partially-mapped crossover: b's values in st..en, a's
\* elsewhere, mapped out of the way
PmxChild(a, b, st, en) ==
    [i \in 1..Len(a) |-> IF i \in st..en THEN b[i] ELSE PmxResolve(a[i], a, b, st, en)]

crossover_pmx(s1, s2, st, en) == <<PmxChild(s1, s2, st, en), PmxChild(s2, s1, st, en)>>

\* one child of the order crossover: a's values in st..en, the other
\* positions filled with the remaining values in the order they have in b
OrderChild(a, b, st, en) ==
    LET kept == { a[j] : j \in st..en }
        keep(v) == v \notin kept
        rest == SelectSeq(b, keep)
    IN  [i \in 1..Len(a) |->
            IF i < st THEN rest[i]
            ELSE IF i <= en THEN a[i]
            ELSE rest[i - (en - st + 1)]]

crossover_order(s1, s2, st, en) == <<OrderChild(s1, s2, st, en), OrderChild(s2, s1, st, en)>>

RECURSIVE CycleFrom(_, _, _, _)
\* the positions of the cycle through position i: from i to the position
\* in a of the value b has at i, until the cycle closes
CycleFrom(a, b, i, seen) ==
    IF i \in seen THEN seen
    ELSE CycleFrom(a, b, IndexOf(a, b[i]), seen \cup {i})

\* cycle crossover: the children exchange the positions outside the cycle
\* through position st
crossover_cycle(s1, s2, st) ==
    LET cyc == CycleFrom(s1, s2, st, {})
    IN  << [i \in 1..Len(s1) |-> IF i \in cyc THEN s1[i] ELSE s2[i]],
           [i \in 1..Len(s2) |-> IF i \in cyc THEN s2[i] ELSE s1[i]] >>

\* a crossover that exchanges the tails after position en for idx 1
crossover_one_point(s1, s2, idx, st, en) ==
    CASE idx = 0 -> <<s1, s2>>
      [] idx = 1 -> << [i \in 1..Len(s1) |-> IF i <= en THEN s1[i] ELSE s2[i]],
                       [i \in 1..Len(s2) |-> IF i <= en THEN s2[i] ELSE s1[i]] >>
      [] idx = 2 -> crossover_order(s1, s2, st, en)
      [] idx = 3 -> crossover_cycle(s1, s2, st)

\* Evaluator::crossover(s1, s2, idx): the two states after the call
crossover(s1, s2, idx, st, en) ==
    CASE idx = 0 -> <<s1, s2>>
      [] idx = 1 -> crossover_pmx(s1, s2, st, en)
      [] idx = 2 -> crossover_order(s1, s2, st, en)
      [] idx = 3 -> crossover_cycle(s1, s2, st)

mutate_swap(s, i, j) == [s EXCEPT ![i] = s[j], ![j] = s[i]]

\* the value at i is taken out and put in at j
mutate_insert(s, i, j) ==
    [k \in 1..Len(s) |->
        IF j >= i
        THEN (IF k < i \/ k > j THEN s[k] ELSE IF k = j THEN s[i] ELSE s[k + 1])
        ELSE (IF k < j \/ k > i THEN s[k] ELSE IF k = j THEN s[i] ELSE s[k - 1])]

\* the values in st..en are put in the order q, a shuffle of st..en
mutate_scramble(s, st, en, q) ==
    [k \in 1..Len(s) |-> IF k \in st..en THEN s[q[k - st + 1]] ELSE s[k]]

\* the values in st..en are reversed
mutate_inversion(s, st, en) ==
    [k \in 1..Len(s) |-> IF k \in st..en THEN s[st + en - k] ELSE s[k]]

\* Evaluator::mutate(s, rate, idx): the state after the call; applied is
\* the outcome of the draw against rate
mutate(s, applied, idx, i, j, q) ==
    IF ~applied THEN s
    ELSE CASE idx = 0 -> mutate_swap(s, i, j)
           [] idx = 1 -> mutate_insert(s, i, j)
           [] idx = 2 -> mutate_scramble(s, Min(i, j), Max(i, j), q)
           [] idx = 3 -> mutate_inversion(s, Min(i, j), Max(i, j))

CrossoverNames == <<"none", "pmx", "order", "cycle">>
MutationNames == <<"swap", "insert", "scramble", "inversion">>

\* two RouteStates from the generator function
InitPerm ==
    /\ KernelIdle /\ FitIdle /\ GaIdle /\ GuiIdle
    /\ permS1 \in genfn(net_order_of(PermNets))
    /\ permS2 \in genfn(net_order_of(PermNets))
    /\ permOp = [name |-> "none", changed |-> FALSE]
    /\ permN = 0

\* self.crossover(&mut s1, &mut s2, idx)
Crossover ==
    /\ permN < MaxPermOps
    /\ \E idx \in 0..3 : \E st \in 1..NumPermNets : \E en \in st..NumPermNets :
         LET c == crossover(permS1, permS2, idx, st, en)
         IN  /\ permS1' = c[1]
             /\ permS2' = c[2]
             /\ permOp' = [name |-> CrossoverNames[idx + 1],
                           changed |-> c # <<permS1, permS2>>]
    /\ permN' = permN + 1
    /\ UNCHANGED <<kernelVars, fitVars, gaVars, guiVars>>

\* self.mutate(&mut s1, rate, idx)
Mutate ==
    /\ permN < MaxPermOps
    /\ \E idx \in 0..3 : \E applied \in BOOLEAN :
         \E i, j \in (IF applied THEN 1..NumPermNets ELSE {1}) :
         \E q \in (IF applied /\ idx = 2
                   THEN Shuffles([k \in 1..(Max(i, j) - Min(i, j) + 1) |->
                                     Min(i, j) + k - 1])
                   ELSE {<<>>}) :
            LET m == mutate(permS1, applied, idx, i, j, q)
            IN  /\ permS1' = m
                /\ permOp' = [name |-> IF applied THEN MutationNames[idx + 1]
                                       ELSE "skipped",
                              changed |-> m # permS1]
    /\ permN' = permN + 1
    /\ UNCHANGED permS2
    /\ UNCHANGED <<kernelVars, fitVars, gaVars, guiVars>>

NextPerm == Crossover \/ Mutate

SpecPerm == InitPerm /\ [][NextPerm]_vars

(***************************************************************************)
(* Router::run_ga                                                          *)
(*                                                                         *)
(* The trainer runs FixedGenerations generations: the population comes     *)
(* from the generator function, the fitness of its members is evaluated    *)
(* by parallel workers, and the best member's order is routed once more.   *)
(* Router::route returns a Result: Err for a board on which the grid       *)
(* cannot be built, else Ok with the RouteResult of the grid router.       *)
(***************************************************************************)
\* Termination::FixedGenerations(1)
FixedGenerations == 1

GaNets == 1..NumGaNets

\* the pairs of nets, numbered: (1,2), (1,3), (2,3), (1,4), ...
PairRank(q) == ((q[2] - 1) * (q[2] - 2)) \div 2 + q[1]

\* the boards routed: the first k pairs of nets cross, k up to the number
\* of nets; and one board on which no grid can be built
GaBoards ==
    LET pairs == { q \in GaNets \X GaNets : q[1] < q[2] }
    IN  { [crossings |-> { q \in pairs : PairRank(q) <= k }, wires |-> <<>>,
           vias |-> <<>>, debug_rts |-> <<>>, invalid |-> FALSE] :
             k \in 0..NumGaNets }
        \cup { [crossings |-> {}, wires |-> <<>>, vias |-> <<>>,
                debug_rts |-> <<>>, invalid |-> TRUE] }

\* the net orders: the permutations of the net ids
GaOrders == genfn(net_order_of(GaNets))

\* Router::route(net_order) on the Router's Pcb p: the Result of grid.route()
Router_route(p, order) ==
    IF p.invalid THEN [ok |-> FALSE, res |-> DefaultResult]
    ELSE [ok |-> TRUE, res |-> grid_route(p, order)]

\* Router::route, tabulated: routing is a function of the board and the
\* order
RouteTable == [p \in GaBoards |-> [o \in GaOrders |-> Router_route(p, o)]]

\* self.route(order) on the Router whose Pcb is p
route(p, order) == RouteTable[p][order]

\* a before b in lexicographic order
LexLess(a, b) ==
    \E k \in 1..Len(a) : a[k] < b[k] /\ \A j \in 1..(k - 1) : a[j] = b[j]

\* the populations of the evolver: PopSize states from genfn, no two the
\* same (Duplicates::DisallowDuplicates); what matters of a population is
\* its members, so each is listed once, in lexicographic order
RECURSIVE PopulationsFrom(_, _)
\* the lists of k states in lexicographic order, all after the state lo
PopulationsFrom(k, lo) ==
    IF k = 0 THEN {<<>>}
    ELSE UNION { { <<o>> \o rest : rest \in PopulationsFrom(k - 1, o) } :
                   o \in { x \in GaOrders : lo = <<>> \/ LexLess(lo, x) } }

Populations == PopulationsFrom(PopSize, <<>>)

IdleRun ==
    [pc |-> "idle", pop |-> <<>>, fit |-> <<>>, gen |-> 0, best |-> <<>>,
     out |-> NoResult, nroutes |-> 0]

\* one call of run_ga
InitGa ==
    /\ KernelIdle /\ FitIdle /\ PermIdle /\ GuiIdle
    /\ gaBoard \in GaBoards
    /\ gaRuns = {1}
    /\ ga = [r \in gaRuns |-> IdleRun]

\* two calls of run_ga on the same Pcb
InitGa2 ==
    /\ KernelIdle /\ FitIdle /\ PermIdle /\ GuiIdle
    /\ gaBoard \in GaBoards
    /\ gaRuns = {1, 2}
    /\ ga = [r \in gaRuns |-> IdleRun]

GaFrame == UNCHANGED <<gaBoard, gaRuns, kernelVars, fitVars, permVars, guiVars>>

\* run_ga up to the first generation: net_order is collected and the
\* evolver makes its population with genfn
GaStart(r) ==
    /\ ga[r].pc = "idle"
    /\ \E pop \in Populations :
         ga' = [ga EXCEPT ![r] = [@ EXCEPT !.pc = "eval", !.pop = pop,
                                           !.fit = [i \in 1..PopSize |-> NoResult]]]
    /\ GaFrame

\* a worker evaluates Router::fitness of member i: route(...).unwrap()
\* panics on Err
GaFitness(r, i) ==
    /\ ga[r].pc = "eval"
    /\ ga[r].fit[i] = NoResult
    /\ LET rr == route(gaBoard, ga[r].pop[i])
       IN  ga' = [ga EXCEPT ![r] =
                     IF rr.ok THEN [@ EXCEPT !.fit[i] = fitness(rr.res)]
                     ELSE [@ EXCEPT !.pc = "panicked"]]
    /\ GaFrame

\* an end of generation that does not count the generation and evaluates
\* the population again
GaEndGeneration_again(r) ==
    /\ ga[r].pc = "eval"
    /\ \A i \in 1..PopSize : ga[r].fit[i] # NoResult
    /\ ga' = [ga EXCEPT ![r] = [@ EXCEPT !.fit = [i \in 1..PopSize |-> NoResult]]]
    /\ GaFrame

\* the end of the generation: the workers are joined; the configured number
\* of generations is reached and train returns, its nth(0) a member of the
\* highest fitness
GaEndGeneration(r) ==
    /\ ga[r].pc = "eval"
    /\ ga[r].gen < FixedGenerations
    /\ \A i \in 1..PopSize : ga[r].fit[i] # NoResult
    /\ \E i \in 1..PopSize :
         /\ \A j \in 1..PopSize : ~FitLess(ga[r].fit[i], ga[r].fit[j])
         /\ ga' = [ga EXCEPT ![r] = [@ EXCEPT !.pc = "route", !.gen = @ + 1,
                                              !.best = ga[r].pop[i]]]
    /\ GaFrame

\* self.route(order): the Result is what run_ga returns
GaFinalRoute(r) ==
    /\ ga[r].pc = "route"
    /\ LET rr == route(gaBoard, ga[r].best)
       IN  ga' = [ga EXCEPT ![r] =
                     [@ EXCEPT !.pc = IF rr.ok THEN "returned" ELSE "err",
                               !.out = rr, !.nroutes = @ + 1]]
    /\ GaFrame

NextGa ==
    \E r \in gaRuns :
        \/ GaStart(r)
        \/ \E i \in 1..PopSize : GaFitness(r, i)
        \/ GaEndGeneration(r)
        \/ GaFinalRoute(r)

SpecGa == InitGa /\ [][NextGa]_vars

SpecGa2 == InitGa2 /\ [][NextGa]_vars

\* the thread of run_ga and its workers keep running: a step that can be
\* taken is taken
FairGa == WF_vars(NextGa)

SpecGaFair == InitGa /\ [][NextGa]_vars /\ FairGa

(***************************************************************************)
(* The Route button of the viewer (MemerouteGui::update)                   *)
(*                                                                         *)
(* Every click spawns a thread that routes the shared Pcb, applies the     *)
(* result to it and writes the session.  The Pcb is behind a Mutex that is *)
(* taken for one statement at a time, so each statement is one step.      *)
(***************************************************************************)
Clicks == 1..NumClicks

\* the boards loaded into the viewer: boards that can be routed
GuiBoards == { b \in GaBoards : ~b.invalid }

\* PcbToSession::new(pcb).convert(): the session holds the wires and the
\* vias of the Pcb
PcbToSession(p) == [wires |-> p.wires, vias |-> p.vias]

IdleThread ==
    [pc |-> "idle", snap |-> NoResult, res |-> NoResult, after |-> NoResult,
     ses |-> NoResult]

InitGui ==
    /\ KernelIdle /\ FitIdle /\ PermIdle /\ GaIdle
    /\ guiPcb \in GuiBoards
    /\ guiThreads = [t \in Clicks |-> IdleThread]
    /\ guiLast = NoResult
    /\ guiOverlap = FALSE

GuiFrame == UNCHANGED <<kernelVars, fitVars, permVars, gaVars>>

\* ui.button("Route").clicked(): thread::spawn; the clicks are numbered in
\* the order they are made
ClickRoute(t) ==
    /\ guiThreads[t].pc = "idle"
    /\ \A u \in Clicks : u < t => guiThreads[u].pc # "idle"
    /\ guiThreads' = [guiThreads EXCEPT ![t] = [@ EXCEPT !.pc = "spawned"]]
    /\ guiOverlap' = (guiOverlap \/ \E u \in Clicks : guiThreads[u].pc \notin {"idle", "done"})
    /\ UNCHANGED <<guiPcb, guiLast>>
    /\ GuiFrame

\* Router::new(pcb.clone()); router.route(router.rand_net_order()).unwrap():
\* the board as it is now is routed, in the sorted order of the net ids
ThreadRoute(t) ==
    /\ guiThreads[t].pc = "spawned"
    /\ guiThreads' = [guiThreads EXCEPT ![t] =
                         [@ EXCEPT !.pc = "routed", !.snap = guiPcb,
                                   !.res = Router_route(guiPcb, net_order_of(GaNets)).res]]
    /\ UNCHANGED <<guiPcb, guiLast, guiOverlap>>
    /\ GuiFrame

\* apply_route_result(&mut pcb.clone().lock().unwrap(), &resp)
ThreadApply(t) ==
    /\ guiThreads[t].pc = "routed"
    /\ guiPcb' = apply_route_result(guiPcb, guiThreads[t].res)
    /\ guiThreads' = [guiThreads EXCEPT ![t] = [@ EXCEPT !.pc = "applied", !.after = guiPcb']]
    /\ guiLast' = guiThreads[t].res
    /\ UNCHANGED guiOverlap
    /\ GuiFrame

\* PcbToSession::new(pcb.lock().unwrap().clone()).convert(), written to the
\* session file
ThreadSession(t) ==
    /\ guiThreads[t].pc = "applied"
    /\ guiThreads' = [guiThreads EXCEPT ![t] = [@ EXCEPT !.pc = "done", !.ses = PcbToSession(guiPcb)]]
    /\ UNCHANGED <<guiPcb, guiLast, guiOverlap>>
    /\ GuiFrame

NextGui ==
    \E t \in Clicks :
        \/ ClickRoute(t)
        \/ ThreadRoute(t)
        \/ ThreadApply(t)
        \/ ThreadSession(t)

SpecGui == InitGui /\ [][NextGui]_vars

(***************************************************************************)
(* Claims                                                                  *)
(***************************************************************************)
RECURSIVE ConcatField(_, _, _)
\* the in-order concatenation of field f of rs[i..]
ConcatField(rs, i, f) ==
    IF i > Len(rs) THEN <<>> ELSE rs[i][f] \o ConcatField(rs, i + 1, f)

\* C1: after merging r1..rn in that order into a default RouteResult, wires,
\* vias and debug_rts are the in-order concatenations of the lists of r1..rn
\* and failed is true iff some ri had failed = true.
C1_MergeConcatOr ==
    /\ acc.wires = ConcatField(merged, 1, "wires")
    /\ acc.vias = ConcatField(merged, 1, "vias")
    /\ acc.debug_rts = ConcatField(merged, 1, "debug_rts")
    /\ acc.failed = (\E i \in 1..Len(merged) : merged[i].failed)

\* a failed result with a wire was merged, then a successful one with a wire
C1_Witness ==
    /\ Len(merged) >= 2
    /\ merged[1].failed /\ ~merged[2].failed
    /\ Len(merged[1].wires) > 0 /\ Len(merged[2].wires) > 0
    /\ acc.failed

\* C2: merge is associative: (a.merge(b)).merge(c) and a.merge(b.merge(c))
\* have the same wires, vias, debug_rts and failed flag.
C2_MergeAssociative ==
    (left # NoResult /\ right # NoResult) => left = right

\* both groupings computed, b successful with a wire, c failed
C2_Witness ==
    /\ left # NoResult /\ right # NoResult
    /\ Len(mb.wires) > 0 /\ ~mb.failed /\ mc.failed /\ Len(ma.wires) > 0

\* C3: an empty result is a no-op: merging a default RouteResult leaves acc
\* unchanged, and apply_route_result with an empty RouteResult leaves the
\* PCB's wires, vias and debug rectangles unchanged.
C3_EmptyIsNoOp ==
    /\ (aggOp = "merge" /\ aggArg = DefaultResult) => acc = aggPrev.acc
    /\ (aggOp = "apply" /\ aggArg = DefaultResult) => pcb = aggPrev.pcb

\* an empty result was applied to a PCB that holds a wire, by a failed and
\* non-empty accumulator into which an empty result had been merged
C3_Witness ==
    /\ aggOp = "apply" /\ aggArg = DefaultResult
    /\ Len(pcb.wires) > 0
    /\ acc.failed /\ Len(acc.wires) > 0
    /\ \E i \in 1..Len(merged) : merged[i] = DefaultResult

\* C4: the shape predicates are total: Shape::intersects returns a boolean
\* for every ordered pair of variants, and Shape::contains does for every
\* pair whose container is a rectangle or a polygon; neither ever aborts.
C4_ShapePredicatesTotal ==
    /\ shCall = "intersects" => shOutcome \in {"true", "false"}
    /\ (shCall = "contains" /\ shA \in {"Rect", "Polygon"}) =>
           shOutcome \in {"true", "false"}

\* The closed segments a and b share a point: a.st + t (a.en - a.st) =
\* b.st + u (b.en - b.st) for some t, u in [0, 1].  For grid segments t and
\* u can be taken rational with a common denominator d <= 2 n^2 (the cross
\* product of the two directions when they are not parallel, the length of a
\* segment along an axis when they are), so t = i / d and u = j / d.
SegsShareAPoint(a, b, n) ==
    LET ax == a.st.x \div Unit   ay == a.st.y \div Unit
        adx == (a.en.x - a.st.x) \div Unit   ady == (a.en.y - a.st.y) \div Unit
        bx == b.st.x \div Unit   by == b.st.y \div Unit
        bdx == (b.en.x - b.st.x) \div Unit   bdy == (b.en.y - b.st.y) \div Unit
    IN  \E d \in 1..(2 * n * n) : \E i \in 0..d : \E j \in 0..d :
            /\ d * ax + i * adx = d * bx + j * bdx
            /\ d * ay + i * ady = d * by + j * bdy

\* C5: for segments with end points on the grid, zero-length ones included,
\* seg_intersects_seg(a, b) is true exactly when the closed segments share
\* at least one point.
C5_SegSegExact ==
    segRes # NoResult => (segRes.ab <=> SegsShareAPoint(segA, segB, SegGrid))

\* a T-junction: the end of one segment in the interior of the other, the two
\* not parallel; found to intersect
C5_Witness ==
    /\ segRes # NoResult /\ segRes.ab
    /\ segA = seg(pt(0, 0), pt(2 * Unit, 0))
    /\ segB = seg(pt(Unit, 0), pt(Unit, 2 * Unit))

\* C6: seg_intersects_seg is symmetric and independent of end point order:
\* the four calls (a, b), (b, a) and both with reversed end points agree.
C6_SegSegSymmetric ==
    segRes # NoResult =>
        /\ segRes.ba = segRes.ab
        /\ segRes.rev_ab = segRes.ab
        /\ segRes.rev_ba = segRes.ab

\* a one-point collinear touch at the end of b and the start of a
C6_Witness ==
    /\ segRes # NoResult /\ segRes.ab /\ segRes.rev_ba
    /\ segA = seg(pt(Unit, Unit), pt(2 * Unit, 2 * Unit))
    /\ segB = seg(pt(0, 0), pt(Unit, Unit))

OrientationCrosses(a, b) ==
    { cross_at(b.st, b.en, a.st), cross_at(b.st, b.en, a.en),
      cross_at(a.st, a.en, b.st), cross_at(a.st, a.en, b.en) }

\* every orientation test is decisive: its cross product is 0 or its
\* magnitude is above EP
OrientationsDecisive(a, b) ==
    \A c \in OrientationCrosses(a, b) : c = 0 \/ ~f64_eq(c, 0, Area)

C8_RtRtDistZeroOnIntersection ==
    (distRes # NoResult /\ distA.kind = "rt" /\ distRes.intersects)
        => distRes.dist2 = 0

\* C9: if circ_intersect_rt(a, b) is true then circ_rt_dist(a, b) returns
\* exactly 0, never a negative value.
C9_CircRtDistZeroOnIntersection ==
    (distRes # NoResult /\ distA.kind = "circ" /\ distRes.intersects)
        => SqrtDiffIsZero(distRes.dist)

\* a route call that has routed its whole order
Routed(t) == t.pc = "done" \/ (t.pc = "routing" /\ t.pos = Len(t.order))

\* C10: Router::route works on an independent snapshot: whatever route calls
\* have run or are running, the Router's Pcb is as it was, and the result of
\* every call is the result of routing its net order alone on that Pcb.
C10_RouteOnSnapshot ==
    /\ rPcb = rPcb0
    /\ \A w \in DOMAIN tasks :
         Routed(tasks[w]) => tasks[w].res = grid_route(rPcb0, tasks[w].order)

\* two calls in flight at once have both routed their orders, which differ,
\* with different results, and neither has returned yet
C10_Witness ==
    \E v, w \in DOMAIN tasks :
        /\ tasks[v].pc = "routing" /\ tasks[v].pos = Len(tasks[v].order)
        /\ tasks[w].pc = "routing" /\ tasks[w].pos = Len(tasks[w].order)
        /\ tasks[v].order # tasks[w].order
        /\ tasks[v].res # tasks[w].res
        /\ Len(tasks[v].res.vias) > 0

\* C11: workers evaluating Router::route never block on each other: a worker
\* that has reached self.pcb.lock() never finds the Mutex held by another
\* worker.
C11_WorkersNeverBlock ==
    \A w \in Tasks : tasks[w].pc = "lock" => rLock = NoTask

\* C12: the cost is K_fail times the number of failed nets plus K_via times
\* the number of vias plus K_len times the total wire length; in particular
\* two outcomes that differ only in the number of failed nets, or only in
\* the total wire length, get different costs.
C12_CostCountsFailedNetsAndLength ==
    fitRes # NoResult =>
        LET sameVias == Len(fitA.res.vias) = Len(fitB.res.vias)
            lenA == SumLen(fitA.res.wires, 1)
            lenB == SumLen(fitB.res.wires, 1)
        IN  /\ (sameVias /\ lenA = lenB /\ fitA.nfailed # fitB.nfailed)
                  => fitRes.costA # fitRes.costB
            /\ (sameVias /\ fitA.nfailed = fitB.nfailed /\ lenA # lenB)
                  => fitRes.costA # fitRes.costB

\* C13: an unroutable net (Ok with failed = true) only lowers the fitness
\* and never aborts the search; a fatal routing error (Err) during a fitness
\* evaluation aborts the pass and is returned to the caller of run_ga as an
\* error, without crashing the worker.
C13_ErrorsPropagate ==
    \A r \in gaRuns :
        /\ ga[r].pc # "panicked"
        /\ ~gaBoard.invalid => ga[r].pc # "err"
        /\ (gaBoard.invalid /\ ga[r].pc \notin {"idle", "eval"}) => ga[r].pc = "err"

\* s holds every net id exactly once
IsPermutation(s, nets) ==
    /\ Len(s) = Cardinality(nets)
    /\ \A n \in nets : \E i \in 1..Len(s) : s[i] = n /\ \A j \in 1..Len(s) : s[j] = n => j = i

\* C14: every RouteState the driver handles is a permutation of the net
\* ids: the states from the generator function, and the states after any
\* sequence of crossover calls (idx 0..3) and mutate calls (idx 0..3,
\* applied or skipped).
C14_NetOrdersArePermutations ==
    IsPermutation(permS1, PermNets) /\ IsPermutation(permS2, PermNets)

\* a partially-mapped crossover that changed the states, after another
\* operator that had changed them
C14_Witness ==
    /\ permN = MaxPermOps
    /\ permOp = [name |-> "pmx", changed |-> TRUE]
    /\ permS1 # permS2

\* C15: at termination the result of run_ga is at least as good as routing
\* any net order: the cost of route(pi) is at least the cost of the result
\* returned, for every permutation pi of the net ids.
C15_ResultIsOptimal ==
    \A r \in gaRuns :
        ga[r].pc = "returned" =>
            \A o \in GaOrders :
                cost(Router_route(gaBoard, o).res) >= cost(ga[r].out.res)

\* C16: two runs of run_ga on the same Pcb with the same seed return the
\* same best order and the same RouteResult.
C16_Reproducible ==
    \A r1, r2 \in gaRuns :
        (ga[r1].pc = "returned" /\ ga[r2].pc = "returned")
            => ga[r1].best = ga[r2].best /\ ga[r1].out = ga[r2].out

\* C17: the result buffer is cleared by a full re-route: after any sequence
\* of Route passes, each started after the one before has finished, the
\* wires and vias of the Pcb are exactly those of the most recent pass.
C17_RerouteClearsBuffer ==
    (/\ ~guiOverlap
     /\ guiLast # NoResult
     /\ \A t \in Clicks : guiThreads[t].pc \in {"idle", "applied", "done"})
        => /\ guiPcb.wires = guiLast.wires
           /\ guiPcb.vias = guiLast.vias

\* C18: failure dominates vias: of a failed and a not failed result the
\* failed one has the strictly lower fitness, whatever the numbers of vias.
C18_FailureDominatesVias ==
    (fitRes # NoResult /\ fitA.res.failed /\ ~fitB.res.failed)
        => FitLess(fitRes.a, fitRes.b)

\* C18 as it holds: the failed result has the strictly lower fitness exactly
\* when the result that did not fail has fewer than 100 vias more than the
\* failed one (1000 / 10); at 100 more the two are equal, beyond that the
\* failed one is the fitter.
C18_FailureDominatesBelow100Vias ==
    (fitRes # NoResult /\ fitA.res.failed /\ ~fitB.res.failed)
        => LET more == Len(fitB.res.vias) - Len(fitA.res.vias)
           IN  /\ FitLess(fitRes.a, fitRes.b) <=> more < 100
               /\ fitRes.a = fitRes.b <=> more = 100
               /\ FitLess(fitRes.b, fitRes.a) <=> more > 100

\* a failed result without vias evaluated against one that did not fail and
\* has 99 vias: the failed one is still the less fit
C18_Witness ==
    /\ fitRes # NoResult
    /\ fitA.res.failed /\ Len(fitA.res.vias) = 0
    /\ ~fitB.res.failed /\ Len(fitB.res.vias) = 99
    /\ FitLess(fitRes.a, fitRes.b)

\* C19: routing threads do not interfere: the session a thread writes is
\* the session of the Pcb as that thread's own apply left it, and the Pcb
\* never holds two results that were routed from the same un-routed board.
C19_RouteThreadsAtomic ==
    /\ \A t \in Clicks :
         guiThreads[t].pc = "done" => guiThreads[t].ses = PcbToSession(guiThreads[t].after)
    /\ \A t, u \in Clicks :
         (/\ t # u
          /\ guiThreads[t].pc \in {"applied", "done"}
          /\ guiThreads[u].pc \in {"applied", "done"})
            => ~(guiThreads[t].snap = guiThreads[u].snap /\ Len(guiThreads[t].snap.wires) = 0)

SegPointDists(p, s) ==
    LET dir == Line_dir(s)
        n   == mag2(dir)
    IN  IF n = 0 THEN { frac(Pt_dist2(p, s.st), 1) }
        ELSE { frac((n * (s.st.x - p.x) + k * dir.x) * (n * (s.st.x - p.x) + k * dir.x)
                      + (n * (s.st.y - p.y) + k * dir.y) * (n * (s.st.y - p.y) + k * dir.y),
                    n * n) : k \in 0..n }

\* d is the least distance from p to a point of s
IsMinDist(d, p, s) ==
    /\ \E m \in SegPointDists(p, s) : frac_eq(d, m)
    /\ \A m \in SegPointDists(p, s) : frac_le(d, m)

\* the foot of the perpendicular from p to the line of s is a point of s
ProjectionWithin(p, s) ==
    LET dir == Line_dir(s)
        k   == dot(pt(p.x - s.st.x, p.y - s.st.y), dir)
    IN  mag2(dir) > 0 /\ 0 <= k /\ k <= mag2(dir)

\* the squared distance from p to the line of s: cross^2 / |dir|^2
PerpDist(p, s) ==
    LET dir == Line_dir(s)
        c   == cross(dir, pt(p.x - s.st.x, p.y - s.st.y))
    IN  frac(c * c, mag2(dir))

\* p is a point of the closed segment s
LiesOn(p, s) ==
    /\ cross(Line_dir(s), pt(p.x - s.st.x, p.y - s.st.y)) = 0
    /\ Min(s.st.x, s.en.x) <= p.x /\ p.x <= Max(s.st.x, s.en.x)
    /\ Min(s.st.y, s.en.y) <= p.y /\ p.y <= Max(s.st.y, s.en.y)

\* C21: pt_seg_dist(p, s) is a number, the least distance from p to a
\* point of the closed segment s: the perpendicular distance to the
\* supporting line when the projection of p falls within s, the distance
\* to the nearer end point otherwise; it is 0 exactly when p lies on s, and
\* for a segment of zero length it is the distance from p to that point.
C21_PtSegDistIsMinimum ==
    distRes # NoResult =>
        /\ ~is_nan(distRes.dist)
        /\ IsMinDist(distRes.dist, distA, distB)
        /\ IF ProjectionWithin(distA, distB)
           THEN frac_eq(distRes.dist, PerpDist(distA, distB))
           ELSE frac_eq(distRes.dist,
                        frac(Min(Pt_dist2(distA, distB.st),
                                 Pt_dist2(distA, distB.en)), 1))
        /\ (distRes.dist.num = 0) <=> LiesOn(distA, distB)
        /\ distB.st = distB.en
             => frac_eq(distRes.dist, frac(Pt_dist2(distA, distB.st), 1))

\* pt_seg_dist has returned for a point off the line whose projection falls
\* strictly inside a slanted segment: the perpendicular distance is the
\* answer and it is less than the distance to either end point
C21_Witness ==
    /\ distRes # NoResult
    /\ distB.st.x # distB.en.x /\ distB.st.y # distB.en.y
    /\ ProjectionWithin(distA, distB)
    /\ ~LiesOn(distA, distB)
    /\ frac_eq(distRes.dist, PerpDist(distA, distB))
    /\ ~frac_le(frac(Pt_dist2(distA, distB.st), 1), distRes.dist)
    /\ ~frac_le(frac(Pt_dist2(distA, distB.en), 1), distRes.dist)

====
